---- MODULE Spec2Model ----
(***************************************************************************)
(* Model of cfasodapy.Query: clause-payload construction, the row count    *)
(* (n_rows), the bulk fetch (get_all) and the page generator (get_pages),  *)
(* run against a Socrata server that holds nDatasetRows rows and answers   *)
(* every request with exactly the rows its $offset/$limit select.          *)
(*                                                                         *)
(* Strings are sequences of one-character strings.  Optional values are    *)
(* sets: {} is Python's None and {x} is the value x.                       *)
(***************************************************************************)
EXTENDS Integers, Sequences, FiniteSets, TLC

VARIABLES
    query,          \* the fields Query.__init__ stores: select, where, limit, offset, verbose
    nDatasetRows,   \* rows the server holds: the count_id its count query answers
    op,             \* the call in progress or finished ("none" before any call)
    pc,             \* "idle", "created" / "suspended" (generator), "done", "raised"
    page_size,      \* get_pages: its argument
    row_count,      \* get_pages: row_count = self.n_rows
    n_pages,        \* get_pages: n_pages
    i,              \* get_pages: the loop index of the page last requested
    sent,           \* the requests handed to requests.get, in order, with their status
    yielded,        \* the pages get_pages has yielded to its consumer
    warned,         \* the warnings emitted by warnings.warn
    error,          \* the exception that reached the caller, NoError if none
    n_rows_ret,     \* the value n_rows returned to a direct caller
    clauses_ret,    \* the dict _build_clauses returned to a direct caller
    result          \* the records get_all / _get_request returned

vars == <<query, nDatasetRows, op, pc, page_size, row_count, n_pages, i,
          sent, yielded, warned, error, n_rows_ret, clauses_ret, result>>

(* ------------------------------ bounds --------------------------------- *)
MaxRows == 3
MaxOffset == 3
MaxLimit == 3
MaxPageSize == 3
MaxStrLen == 2
MaxListLen == 2

(* ----------------------------- input sets ------------------------------ *)
None == {}
Some(x) == {x}
Get(o) == CHOOSE x \in o : TRUE

Chars == {"f", "\"", "'", ","}
StringsUpTo(n) == UNION {[1..k -> Chars] : k \in 1..n}
SelectNone == [kind |-> "none", val |-> <<>>]
Str(s) == [kind |-> "str", val |-> s]
List(l) == [kind |-> "list", val |-> l]
Selects ==
    {SelectNone}
    \cup {Str(s) : s \in StringsUpTo(MaxStrLen)}
    \cup {List(l) : l \in UNION {[1..k -> StringsUpTo(1)] : k \in 1..MaxListLen}}
Wheres == {None, Some(<<"w">>)}
Limits == {None} \cup {Some(n) : n \in -1..MaxLimit}
Offsets == {None} \cup {Some(n) : n \in -1..MaxOffset}
Statuses == {200, 500}
Queries == [select : Selects, where : Wheres, limit : Limits,
            offset : Offsets, verbose : BOOLEAN]

CountSelect == <<"c", "o", "u", "n", "t", "(", ":", "i", "d", ")">>
NoError == [type |-> "none", at |-> "none"]
Raise(t, a) == [type |-> t, at |-> a]
EmptyClauses == [k \in {} |-> 0]

(* ----------------------------- pure helpers ---------------------------- *)
\* -(a // -b), with Python's floor division
_int_divide_ceiling(a, b) == -((-a) \div b)

\* '"' in x or "'" in x
HasQuotes(x) == \E n \in 1..Len(x) : x[n] = "\"" \/ x[n] = "'"

_assert_no_quotes(x) == IF HasQuotes(x) THEN Raise("RuntimeError", "_assert_no_quotes")
                        ELSE NoError

\* ",".join(['"' + x + '"' for x in select])
RECURSIVE JoinQuoted(_)
JoinQuoted(l) ==
    IF l = <<>> THEN <<>>
    ELSE LET head == <<"\"">> \o Head(l) \o <<"\"">>
         IN IF Len(l) = 1 THEN head ELSE head \o <<",">> \o JoinQuoted(Tail(l))

SelectClause(select) ==
    IF select.kind = "str" THEN select.val ELSE JoinQuoted(select.val)

SelectError(select) ==
    IF select.kind = "str" THEN _assert_no_quotes(select.val)
    ELSE IF select.kind = "list" /\ \E n \in 1..Len(select.val) : HasQuotes(select.val[n])
         THEN Raise("RuntimeError", "_assert_no_quotes")
         ELSE NoError

_build_clauses(select, where, limit, offset) ==
    LET keys == (IF select.kind # "none" THEN {"$select"} ELSE {})
                \cup (IF where # None THEN {"$where"} ELSE {})
                \cup (IF limit # None THEN {"$limit"} ELSE {})
                \cup (IF offset # None THEN {"$offset"} ELSE {})
        clauses == [k \in keys |->
                      CASE k = "$select" -> SelectClause(select)
                        [] k = "$where" -> Get(where)
                        [] k = "$limit" -> Get(limit)
                        [] k = "$offset" -> Get(offset)]
    IN  IF SelectError(select) # NoError
        THEN [err |-> SelectError(select), clauses |-> EmptyClauses]
        ELSE IF limit # None /\ ~(Get(limit) > 0)
        THEN [err |-> Raise("AssertionError", "_build_clauses"), clauses |-> EmptyClauses]
        ELSE IF offset # None /\ ~(Get(offset) >= 0)
        THEN [err |-> Raise("AssertionError", "_build_clauses"), clauses |-> EmptyClauses]
        ELSE [err |-> NoError, clauses |-> clauses]

SupportedKeys == {"$select", "$where", "$group", "$having", "$limit", "$offset"}

_validate_clauses(clauses) ==
    IF (DOMAIN clauses) \ SupportedKeys # {}
    THEN Raise("RuntimeError", "_validate_clauses")
    ELSE NoError

(* ------------------------------- server -------------------------------- *)
\* rows are numbered 0 .. n-1 in dataset order
ServerRows(n, params) ==
    LET first == IF "$offset" \in DOMAIN params THEN params["$offset"] ELSE 0
        last == IF "$limit" \in DOMAIN params
                THEN (IF first + params["$limit"] < n THEN first + params["$limit"] ELSE n) - 1
                ELSE n - 1
    IN  [k \in 1..(last - first + 1) |-> first + k - 1]

\* _get_request without the check of r.status_code
_get_request_unchecked(params, by, status) ==
    IF _validate_clauses(params) # NoError
    THEN [err |-> _validate_clauses(params), log |-> <<>>]
    ELSE [err |-> NoError, log |-> <<[params |-> params, by |-> by, status |-> status]>>]

\* one transport call: validation, then the GET with the status the server gives
_get_request(params, by, status) ==
    IF _validate_clauses(params) # NoError
    THEN [err |-> _validate_clauses(params), log |-> <<>>]
    ELSE IF status = 200
    THEN [err |-> NoError, log |-> <<[params |-> params, by |-> by, status |-> status]>>]
    ELSE [err |-> Raise("RuntimeError", "_get_request"),
          log |-> <<[params |-> params, by |-> by, status |-> status]>>]

(* ------------------------------- n_rows -------------------------------- *)
\* the offset test with <= in place of <
OffsetAtOrPastEnd(n_rows_after_offset) == n_rows_after_offset <= 0

\* if n_rows_after_offset < 0
OffsetPastEnd(n_rows_after_offset) == n_rows_after_offset < 0

n_rows(q, n, status) ==
    LET built == _build_clauses(Str(CountSelect), q.where, None, None)
        resp == _get_request(built.clauses, "n_rows", status)
        n_dataset_rows == n
        offset == IF q.offset = None THEN 0 ELSE Get(q.offset)
        n_rows_after_offset == n_dataset_rows - offset
    IN  IF resp.err # NoError
        THEN [err |-> resp.err, log |-> resp.log, warns |-> <<>>, value |-> 0]
        ELSE IF n_dataset_rows = 0
        THEN [err |-> NoError, log |-> resp.log, warns |-> <<"no_rows">>, value |-> 0]
        ELSE IF OffsetPastEnd(n_rows_after_offset)
        THEN [err |-> NoError, log |-> resp.log, warns |-> <<"offset">>, value |-> 0]
        ELSE IF q.limit # None /\ Get(q.limit) > n_rows_after_offset
        THEN [err |-> NoError, log |-> resp.log, warns |-> <<"limit">>, value |-> 0]
        ELSE IF q.limit = None
        THEN [err |-> NoError, log |-> resp.log, warns |-> <<>>,
              value |-> n_rows_after_offset]
        ELSE [err |-> NoError, log |-> resp.log, warns |-> <<>>,
              value |-> n_rows_after_offset - Get(q.limit)]

(* ---------------------------- _get_records ----------------------------- *)
_get_records(q, n, start, end, status) ==
    IF ~(end >= start)
    THEN [err |-> Raise("AssertionError", "_get_records"), log |-> <<>>, page |-> <<>>]
    ELSE IF q.offset = None
    THEN [err |-> Raise("TypeError", "_get_records"), log |-> <<>>, page |-> <<>>]
    ELSE LET built == _build_clauses(q.select, q.where, Some(end - start + 1),
                                     Some(Get(q.offset) + start))
             resp == _get_request(built.clauses, "_get_records", status)
         IN  IF built.err # NoError
             THEN [err |-> built.err, log |-> <<>>, page |-> <<>>]
             ELSE IF resp.err # NoError
             THEN [err |-> resp.err, log |-> resp.log, page |-> <<>>]
             ELSE [err |-> NoError, log |-> resp.log,
                   page |-> ServerRows(n, built.clauses)]

\* the body of the loop of get_pages for page index j
PageStep(q, n, size, j, status) ==
    LET start == j * size
        end == (j + 1) * size - 1
        got == _get_records(q, n, start, end, status)
    IN  IF got.err # NoError THEN got
        ELSE IF ~(Len(got.page) > 0) \/ ~(Len(got.page) <= size)
        THEN [err |-> Raise("AssertionError", "get_pages"), log |-> got.log, page |-> <<>>]
        ELSE got

(* ------------------------------- get_all ------------------------------- *)
get_all(q, n, s1, s2) ==
    LET cnt == IF q.verbose THEN n_rows(q, n, s1)
               ELSE [err |-> NoError, log |-> <<>>, warns |-> <<>>, value |-> 0]
        built == _build_clauses(q.select, q.where, q.limit, q.offset)
        resp == _get_request(built.clauses, "get_all", s2)
    IN  IF cnt.err # NoError
        THEN [err |-> cnt.err, log |-> cnt.log, warns |-> cnt.warns, rows |-> <<>>]
        ELSE IF built.err # NoError
        THEN [err |-> built.err, log |-> cnt.log, warns |-> cnt.warns, rows |-> <<>>]
        ELSE IF resp.err # NoError
        THEN [err |-> resp.err, log |-> cnt.log \o resp.log, warns |-> cnt.warns,
              rows |-> <<>>]
        ELSE [err |-> NoError, log |-> cnt.log \o resp.log, warns |-> cnt.warns,
              rows |-> ServerRows(n, built.clauses)]

(* ------------------------------ operations ----------------------------- *)
Init ==
    /\ query \in Queries
    /\ nDatasetRows \in 0..MaxRows
    /\ op = "none"
    /\ pc = "idle"
    /\ page_size = 0
    /\ row_count = 0
    /\ n_pages = 0
    /\ i = 0
    /\ sent = <<>>
    /\ yielded = <<>>
    /\ warned = <<>>
    /\ error = NoError
    /\ n_rows_ret = None
    /\ clauses_ret = EmptyClauses
    /\ result = <<>>

Outcome(err) == IF err = NoError THEN "done" ELSE "raised"

\* q.n_rows
NRowsCall ==
    /\ pc = "idle"
    /\ \E s \in Statuses :
         LET r == n_rows(query, nDatasetRows, s)
         IN  /\ op' = "n_rows"
             /\ pc' = Outcome(r.err)
             /\ error' = r.err
             /\ sent' = sent \o r.log
             /\ warned' = warned \o r.warns
             /\ n_rows_ret' = IF r.err = NoError THEN Some(r.value) ELSE None
    /\ UNCHANGED <<query, nDatasetRows, page_size, row_count, n_pages, i,
                   yielded, clauses_ret, result>>

\* q.get_all()
GetAll ==
    /\ pc = "idle"
    /\ \E s1, s2 \in Statuses :
         LET r == get_all(query, nDatasetRows, s1, s2)
         IN  /\ op' = "get_all"
             /\ pc' = Outcome(r.err)
             /\ error' = r.err
             /\ sent' = sent \o r.log
             /\ warned' = warned \o r.warns
             /\ result' = r.rows
    /\ UNCHANGED <<query, nDatasetRows, page_size, row_count, n_pages, i,
                   yielded, n_rows_ret, clauses_ret>>

\* q.get_pages(page_size): creates the generator, runs nothing yet
GetPagesCall ==
    /\ pc = "idle"
    /\ \E size \in 1..MaxPageSize : page_size' = size
    /\ op' = "get_pages"
    /\ pc' = "created"
    /\ UNCHANGED <<query, nDatasetRows, row_count, n_pages, i, sent, yielded,
                   warned, error, n_rows_ret, clauses_ret, result>>

\* next(generator): runs get_pages up to its next yield, return or raise
GetPagesNext ==
    /\ op = "get_pages"
    /\ pc \in {"created", "suspended"}
    /\ \E s1, s2 \in Statuses :
         LET first == pc = "created"
             cnt == IF first THEN n_rows(query, nDatasetRows, s1)
                    ELSE [err |-> NoError, log |-> <<>>, warns |-> <<>>,
                          value |-> row_count]
             count == cnt.value
             pages == IF first THEN _int_divide_ceiling(count, page_size) ELSE n_pages
             j == IF first THEN 0 ELSE i + 1
             step == PageStep(query, nDatasetRows, page_size, j, s2)
         IN  IF cnt.err # NoError
             THEN /\ pc' = "raised"
                  /\ error' = cnt.err
                  /\ sent' = sent \o cnt.log
                  /\ UNCHANGED <<row_count, n_pages, i, yielded, warned>>
             ELSE /\ row_count' = count
                  /\ n_pages' = pages
                  /\ warned' = warned \o cnt.warns
                  /\ IF ~(j < pages)
                     THEN /\ pc' = "done"
                          /\ sent' = sent \o cnt.log
                          /\ UNCHANGED <<i, yielded, error>>
                     ELSE /\ i' = j
                          /\ sent' = sent \o cnt.log \o step.log
                          /\ IF step.err # NoError
                             THEN /\ pc' = "raised"
                                  /\ error' = step.err
                                  /\ UNCHANGED yielded
                             ELSE /\ pc' = "suspended"
                                  /\ yielded' = Append(yielded, step.page)
                                  /\ UNCHANGED error
    /\ UNCHANGED <<query, nDatasetRows, op, page_size, n_rows_ret, clauses_ret, result>>

Next == NRowsCall \/ GetAll \/ GetPagesCall \/ GetPagesNext

Spec == Init /\ [][Next]_vars

(* ------------- the class methods, called without an instance ----------- *)
MaxKeys == 2
ClauseKeys == SupportedKeys \cup {"$order"}
ParamValue(k) == IF k = "$limit" THEN 1 ELSE IF k = "$offset" THEN 0 ELSE <<"f">>

\* Query._build_clauses(select, where, limit, offset)
BuildClausesCall ==
    /\ pc = "idle"
    /\ LET r == _build_clauses(query.select, query.where, query.limit, query.offset)
       IN  /\ op' = "_build_clauses"
           /\ pc' = Outcome(r.err)
           /\ error' = r.err
           /\ clauses_ret' = r.clauses
    /\ UNCHANGED <<query, nDatasetRows, page_size, row_count, n_pages, i, sent,
                   yielded, warned, n_rows_ret, result>>

\* Query._get_request(url, params)
GetRequestCall ==
    /\ pc = "idle"
    /\ \E keys \in {K \in SUBSET ClauseKeys : Cardinality(K) <= MaxKeys}, s \in Statuses :
         LET params == [k \in keys |-> ParamValue(k)]
             r == _get_request(params, "caller", s)
         IN  /\ op' = "_get_request"
             /\ pc' = Outcome(r.err)
             /\ error' = r.err
             /\ sent' = sent \o r.log
             /\ result' = IF r.err = NoError THEN ServerRows(nDatasetRows, params)
                          ELSE <<>>
    /\ UNCHANGED <<query, nDatasetRows, page_size, row_count, n_pages, i,
                   yielded, warned, n_rows_ret, clauses_ret>>

NextClauses == BuildClausesCall \/ GetRequestCall

SpecClauses == Init /\ [][NextClauses]_vars

(* ============================== properties ============================= *)
Min(a, b) == IF a < b THEN a ELSE b
Max(a, b) == IF a > b THEN a ELSE b

RECURSIVE SumLen(_)
SumLen(ps) == IF ps = <<>> THEN 0 ELSE Len(Head(ps)) + SumLen(Tail(ps))

RECURSIVE Concat(_)
Concat(ps) == IF ps = <<>> THEN <<>> ELSE Head(ps) \o Concat(Tail(ps))

AllOk == \A k \in 1..Len(sent) : sent[k].status = 200
Finished == pc \in {"done", "raised"}
LimitValid == query.limit = None \/ Get(query.limit) > 0
OffsetGiven == query.offset # None /\ Get(query.offset) >= 0
OffsetOrZero == IF query.offset = None THEN 0 ELSE Get(query.offset)
HasQuoteOrComma(x) == \E n \in 1..Len(x) : x[n] \in {"\"", "'", ","}
SelectInjected ==
    \/ query.select.kind = "str" /\ HasQuoteOrComma(query.select.val)
    \/ query.select.kind = "list"
       /\ \E n \in 1..Len(query.select.val) : HasQuoteOrComma(query.select.val[n])
Quoted(x) == <<"\"">> \o x \o <<"\"">>

\* C1: when get_pages is consumed to the end for a query with an offset >= 0
\* and a limit unset or positive, every yielded page holds between 1 and
\* page_size records and the page lengths sum to the value n_rows reported.
C1_PagesSumToNRows ==
    (op = "get_pages" /\ pc = "done" /\ AllOk /\ OffsetGiven /\ LimitValid)
    => /\ \A k \in 1..Len(yielded) :
            Len(yielded[k]) >= 1 /\ Len(yielded[k]) <= page_size
       /\ SumLen(yielded) = row_count

\* C2: n_rows returns max(0, min(N - offset, limit if set else N - offset)).
C2_NRowsFormula ==
    (op = "n_rows" /\ pc = "done" /\ LimitValid /\ OffsetGiven)
    => LET rest == nDatasetRows - Get(query.offset)
       IN  n_rows_ret = Some(Max(0, Min(rest, IF query.limit = None THEN rest
                                              ELSE Get(query.limit))))

\* C3: a fully consumed get_pages(P) for a query of T effective rows sends one
\* count request and then ceil(T/P) page requests in page order, page i with
\* $offset = offset + i*P and $limit = min(P, T - i*P), and the pages
\* concatenate to the T rows in dataset order.
C3_PageRequests ==
    (op = "get_pages" /\ pc = "done" /\ AllOk /\ OffsetGiven /\ query.limit = None
       /\ query.select = SelectNone)
    => LET T == row_count
           P == page_size
           count == (T + P - 1) \div P
       IN  /\ Len(sent) = 1 + count
           /\ sent[1].by = "n_rows"
           /\ \A k \in 1..count :
                /\ sent[k + 1].by = "_get_records"
                /\ sent[k + 1].params["$offset"] = Get(query.offset) + (k - 1) * P
                /\ sent[k + 1].params["$limit"] = Min(P, T - (k - 1) * P)
           /\ Concat(yielded) = [k \in 1..T |-> Get(query.offset) + k - 1]

\* C4: for a query built with no limit and no offset, n_rows equals N and
\* get_pages(P) runs to completion without raising, its pages summing to N
\* with every page but the last of length exactly P.
C4_DefaultOffsetPages ==
    (op = "get_pages" /\ Finished /\ AllOk /\ query.limit = None
       /\ query.offset = None /\ query.select = SelectNone)
    => /\ pc = "done"
       /\ error = NoError
       /\ row_count = nDatasetRows
       /\ SumLen(yielded) = nDatasetRows
       /\ \A k \in 1..(Len(yielded) - 1) : Len(yielded[k]) = page_size

\* C5 (as claimed): n_rows returns 0, warns and raises nothing whenever the
\* row count is 0 or the offset is >= the row count.
C5_ZeroRowsAlwaysWarn ==
    (op = "n_rows" /\ Finished /\ AllOk /\ LimitValid
       /\ (nDatasetRows = 0 \/ OffsetOrZero >= nDatasetRows))
    => /\ pc = "done"
       /\ n_rows_ret = Some(0)
       /\ warned # <<>>

\* C5 (amended): whenever the count request succeeds and the row count is 0 or
\* the offset is >= the row count (limit unset or positive), n_rows returns 0
\* and raises nothing; it warns in each of these cases except when the offset
\* equals a non-zero row count and no limit is set.
C5_ZeroRowsWarnUnlessOffsetAtEnd ==
    (op = "n_rows" /\ Finished /\ AllOk /\ LimitValid
       /\ (nDatasetRows = 0 \/ OffsetOrZero >= nDatasetRows))
    => /\ pc = "done"
       /\ error = NoError
       /\ n_rows_ret = Some(0)
       /\ (warned = <<>>) <=> (/\ nDatasetRows > 0
                               /\ OffsetOrZero = nDatasetRows
                               /\ query.limit = None)

C5_Witness ==
    /\ op = "n_rows" /\ pc = "done"
    /\ nDatasetRows > 0 /\ OffsetOrZero = nDatasetRows /\ query.limit = None
    /\ n_rows_ret = Some(0) /\ warned = <<>>

\* C6: with a select holding a quote or comma character, get_all and
\* get_pages fail with a configuration error before any HTTP request is sent.
C6_InjectionGuardBeforeRequests ==
    (op \in {"get_all", "get_pages"} /\ pc \in {"done", "raised", "suspended"}
       /\ SelectInjected)
    => /\ pc = "raised"
       /\ error = Raise("RuntimeError", "_assert_no_quotes")
       /\ sent = <<>>

\* C7: a query whose limit is not positive or whose offset is negative is
\* rejected before the first HTTP request of get_all / get_pages: no count
\* request is sent and no page is fetched or yielded.
C7_BadLimitOffsetRejected ==
    (op \in {"get_all", "get_pages"} /\ pc \in {"done", "raised", "suspended"}
       /\ (~LimitValid \/ (query.offset # None /\ Get(query.offset) < 0)))
    => /\ pc = "raised"
       /\ sent = <<>>
       /\ yielded = <<>>

\* C8: clause construction with only select given returns exactly $select and
\* $offset = 0; a single name is wrapped in double quotes, a list of names is
\* each name in double quotes joined by commas in list order.
C8_SelectOnlyPayload ==
    (op = "_build_clauses" /\ query.where = None /\ query.limit = None
       /\ query.offset = None /\ query.select # SelectNone /\ ~SelectInjected)
    => /\ pc = "done"
       /\ DOMAIN clauses_ret = {"$select", "$offset"}
       /\ clauses_ret["$offset"] = 0
       /\ clauses_ret["$select"] =
            IF query.select.kind = "str" THEN Quoted(query.select.val)
            ELSE IF Len(query.select.val) = 1 THEN Quoted(query.select.val[1])
            ELSE Quoted(query.select.val[1]) \o <<",">> \o Quoted(query.select.val[2])

\* C9: a payload holding a $group, $having or $order key is rejected by clause
\* validation and never reaches the HTTP transport.
C9_ReservedKeysRejected ==
    \A k \in 1..Len(sent) :
        DOMAIN sent[k].params \cap {"$group", "$having", "$order"} = {}

\* C10: get_pages sends one count request and then the page requests in page
\* order, each once and without retry; a request that gets a non-success
\* status is the last one sent, its error reaches the caller, and the pages
\* yielded before it are exactly the pages the consumer holds.
C10_PagingStopsAtFailure ==
    (op = "get_pages")
    => /\ Len(yielded) <= Max(0, Len(sent) - 1)
       /\ \A k \in 1..Len(sent) :
            /\ sent[k].by = (IF k = 1 THEN "n_rows" ELSE "_get_records")
            /\ k > 1 => sent[k].params["$offset"]
                          = Get(query.offset) + (k - 2) * page_size
            /\ k < Len(sent) => sent[k].status = 200
       /\ \A k \in 1..Len(yielded) :
            yielded[k] = ServerRows(nDatasetRows, sent[k + 1].params)
       /\ (sent # <<>> /\ sent[Len(sent)].status # 200)
          => /\ pc = "raised"
             /\ error = Raise("RuntimeError", "_get_request")
             /\ Len(yielded) = Max(0, Len(sent) - 2)
       /\ pc = "done" => Len(sent) = 1 + n_pages /\ Len(yielded) = n_pages

C10_Witness ==
    /\ op = "get_pages" /\ pc = "raised"
    /\ error = Raise("RuntimeError", "_get_request")
    /\ Len(sent) = 3 /\ sent[3].status # 200
    /\ Len(yielded) = 1

====
